---- MODULE Spec2Model ----
(***************************************************************************)
(* Model of src/main.py: a FastAPI gateway in front of a derivatives       *)
(* exchange SDK (GrvtCcxt).  Two module-level session handles              *)
(* (read_client, trade_client) are constructed by the lifespan callback;   *)
(* every route resolves one of them through a dependency (get_read_api or  *)
(* get_trade_api), runs its body inside try/except Exception, and answers  *)
(* with a status code.  The state records the two handles, the position of *)
(* the lifespan callback, and for the request handled last: the request,   *)
(* the exchange calls it dispatched, the response and the last log line.   *)
(***************************************************************************)
EXTENDS Integers, Sequences, FiniteSets, TLC

VARIABLES read_client, trade_client, phase, req, calls, resp, log

vars == <<read_client, trade_client, phase, req, calls, resp, log>>

(* ----------------------------- bounds ---------------------------------- *)

\* client order ids are drawn from 0..MaxClientOrderId (stand-in for uint32)
MaxClientOrderId == 2
\* limit prices are 1..MaxPrice (stand-in for positive floats)
MaxPrice == 2
\* start_time values (milliseconds) are 0..MaxStartTime
MaxStartTime == 2
\* the limit query parameters are 1..MaxLimit
MaxLimit == 2

(* ------------------------- Optional[...] values ------------------------ *)

\* Python None and a present value v
None == << >>
Some(v) == <<v>>

\* Python truthiness of Optional[int] / Optional[float] / Optional[str]
TruthyNum(o) == o # None /\ o[1] # 0
TruthyStr(o) == o # None /\ o[1] # ""

(* ----------------------------- input sets ------------------------------ *)

NoClient == "None"
ReadSession == "READ"
TradeSession == "TRADE"

Symbols == {"BTC_USDT_Perp", "ETH_USDT_Perp"}
Sides == {"buy", "sell"}
OrderTypes == {"limit", "market"}
Amounts == {1}
Prices == {None} \cup {Some(p) : p \in 1..MaxPrice}
ClientOrderIds == 0..MaxClientOrderId
OrderIds == {"", "0x01", "0x02"}
Limits == 1..MaxLimit
StartTimes == {None} \cup {Some(t) : t \in 0..MaxStartTime}
AccountTypes == {"sub-account", "funding"}
Ratios == {"1.5", "abc"}
RiskKeys == {"maintenance_margin", "derisk_margin", "derisk_to_maintenance_margin_ratio"}

\* class OrderRequest: price is None or > 0, amount > 0 (pydantic Field constraints)
OrderRequest == [symbol : Symbols, side : Sides, amount : Amounts,
                 price : Prices, order_type : OrderTypes]

\* class CancelOrderRequest: both fields Optional, no further constraint
CancelOrderRequest == [order_id : {None} \cup {Some(i) : i \in OrderIds},
                       client_order_id : {None} \cup {Some(c) : c \in ClientOrderIds}]

(* --------------------- exceptions, responses, logs --------------------- *)

\* raise HTTPException(status_code=s, detail=d)
HTTPException(s, d) == [kind |-> "HTTPException", status |-> s, detail |-> d]
\* an exception raised by the exchange SDK call
ExchangeException == [kind |-> "Exception", status |-> 0, detail |-> "exchange call failed"]

\* str(e) at the except blocks: an HTTPException prints as "<status>: <detail>",
\* an SDK exception as its message
StrOfException(e) ==
    IF e.kind = "HTTPException"
    THEN ToString(e.status) \o ": " \o e.detail
    ELSE e.detail

NoBody == [kind |-> "none"]
NoLog == [level |-> "none", msg |-> "", client_order_id |-> None]

\* a response the caller receives
Response(s, d, b) == [status |-> s, detail |-> d, body |-> b]
\* a finished handler: the exchange calls it dispatched, its response, its last log line
Outcome(c, r, l) == [calls |-> c, resp |-> r, log |-> l]
\* one exchange SDK call on session api
Call(api, m, a) == [session |-> api, method |-> m, args |-> a]

\* the handler's "except Exception as e: raise HTTPException(500, detail=str(e))"
ExceptException(c, e, l) == Outcome(c, Response(500, StrOfException(e), NoBody), l)

(* ----------------------------- dependencies ---------------------------- *)

get_read_api ==
    IF read_client = NoClient
    THEN [raised |-> TRUE, api |-> NoClient,
          exc |-> HTTPException(503, "Read Client not initialized")]
    ELSE [raised |-> FALSE, api |-> read_client, exc |-> HTTPException(0, "")]

get_trade_api ==
    IF trade_client = NoClient
    THEN [raised |-> TRUE, api |-> NoClient,
          exc |-> HTTPException(503, "Trade Client not initialized")]
    ELSE [raised |-> FALSE, api |-> trade_client, exc |-> HTTPException(0, "")]

\* Depends(dep): an exception of the dependency is the response and the route body
\* never runs; otherwise the route body's outcome stands
Depends(dep, out) ==
    IF dep.raised
    THEN Outcome(<< >>, Response(dep.exc.status, dep.exc.detail, NoBody), NoLog)
    ELSE out

(* ------------------------------- state --------------------------------- *)

Init ==
    /\ read_client = NoClient
    /\ trade_client = NoClient
    /\ phase = "created"
    /\ req = [ep |-> "none"]
    /\ calls = << >>
    /\ resp = Response(0, "", NoBody)
    /\ log = NoLog

\* a route handled request r with outcome out; the session handles are untouched.
\* A route is guarded by nothing but its dependency's "is None" test, so it can
\* be entered in every phase of lifespan.
Handled(r, out) ==
    /\ req' = r
    /\ calls' = out.calls
    /\ resp' = out.resp
    /\ log' = out.log
    /\ UNCHANGED <<read_client, trade_client, phase>>

(* ------------------------------ lifespan ------------------------------- *)

\* what the try block of lifespan can do before its yield: construct both
\* sessions, or raise before read_client is assigned (GrvtEnv or the first
\* GrvtCcxt raises), or raise after it (the second GrvtCcxt raises)
StartupOutcomes == {"constructed", "raised_at_read", "raised_at_trade"}

\* lifespan up to its yield: the body has no await, so it runs as one step.  On
\* an exception the except block logs and re-raises and the finally block logs;
\* neither touches the handles.
lifespan_startup ==
    /\ phase = "created"
    /\ \E outcome \in StartupOutcomes :
        /\ read_client' = IF outcome = "raised_at_read" THEN read_client ELSE ReadSession
        /\ trade_client' = IF outcome = "constructed" THEN TradeSession ELSE trade_client
        /\ phase' = IF outcome = "constructed" THEN "serving" ELSE "failed"
        /\ log' = IF outcome = "constructed"
                  THEN [level |-> "info", msg |-> "Initializing TRADING Client...",
                        client_order_id |-> None]
                  ELSE [level |-> "info", msg |-> "Shutting down...",
                        client_order_id |-> None]
    /\ UNCHANGED <<req, calls, resp>>

\* lifespan after its yield: the finally block only logs
lifespan_shutdown ==
    /\ phase = "serving"
    /\ phase' = "stopped"
    /\ log' = [level |-> "info", msg |-> "Shutting down...", client_order_id |-> None]
    /\ UNCHANGED <<read_client, trade_client, req, calls, resp>>

(* ------------------------------- routes -------------------------------- *)

\* a route whose body is "try: return api.m(args) except Exception: raise 500"
PassThrough(api, m, a, ok) ==
    IF ok
    THEN Outcome(<<Call(api, m, a)>>, Response(200, "", [kind |-> "exchange", method |-> m]), NoLog)
    ELSE ExceptException(<<Call(api, m, a)>>, ExchangeException, NoLog)

\* GET /
health_check == Outcome(<< >>, Response(200, "", [kind |-> "health"]), NoLog)

\* GET /markets
get_markets(api, ok) == PassThrough(api, "fetch_all_markets", [none |-> 0], ok)

\* GET /instruments/{symbol}/ticker
get_ticker(api, symbol, ok) == PassThrough(api, "fetch_ticker", [symbol |-> symbol], ok)

\* GET /instruments/{symbol}/orderbook
get_order_book(api, symbol, limit, ok) ==
    PassThrough(api, "fetch_order_book", [symbol |-> symbol, limit |-> limit], ok)

\* GET /account/balance
get_balance(api, ok) == PassThrough(api, "fetch_balance", [none |-> 0], ok)

\* GET /account/summary
get_account_summary(api, type, ok) ==
    PassThrough(api, "get_account_summary", [type |-> type], ok)

\* GET /account/positions: symbols is None or a list; an empty list is falsy
get_positions(api, symbols, ok) ==
    LET target_symbols == IF symbols # None /\ symbols[1] # {}
                          THEN symbols[1] ELSE {"BTC_USDT_Perp"}
    IN  PassThrough(api, "fetch_positions", [symbols |-> target_symbols], ok)

\* the api.create_order(...) call of create_order: a market order passes no price
\* and its amount as Decimal(str(amount)), a limit order passes the float amount
CreateOrderCall(api, order, client_order_id) ==
    Call(api, "create_order",
         [symbol |-> order.symbol, order_type |-> order.order_type,
          side |-> order.side,
          amount |-> IF order.order_type = "market"
                     THEN <<"Decimal", order.amount>> ELSE <<"float", order.amount>>,
          price |-> IF order.order_type = "market" THEN None ELSE order.price,
          params |-> [client_order_id |-> client_order_id]])

\* logger.error(f"Order creation failed: {e}\n{traceback.format_exc()}")
OrderFailedLog == [level |-> "error", msg |-> "Order creation failed",
                   client_order_id |-> None]

\* api.create_order(...) and what follows it: the info log and the return, or the
\* except block when the call raises
CreateOrderDispatch(api, order, client_order_id, ok) ==
    IF ok
    THEN Outcome(<<CreateOrderCall(api, order, client_order_id)>>,
                 Response(200, "", [kind |-> "order",
                                    client_order_id |-> Some(client_order_id),
                                    response |-> "ack"]),
                 [level |-> "info", msg |-> "Order created",
                  client_order_id |-> Some(client_order_id)])
    ELSE ExceptException(<<CreateOrderCall(api, order, client_order_id)>>,
                         ExchangeException, OrderFailedLog)

\* create_order without its price check
create_order_NoPriceCheck(api, order, client_order_id, ok) ==
    CreateOrderDispatch(api, order, client_order_id, ok)

\* POST /orders.  client_order_id is the value rand_uint32() returned, drawn as the
\* first statement of the try block; ok tells whether api.create_order returns.
create_order(api, order, client_order_id, ok) ==
    IF order.order_type = "market"
    THEN CreateOrderDispatch(api, order, client_order_id, ok)
    ELSE IF ~TruthyNum(order.price)
         THEN ExceptException(<< >>, HTTPException(400, "Limit order requires price"),
                              OrderFailedLog)
         ELSE CreateOrderDispatch(api, order, client_order_id, ok)

\* GET /orders/open
get_open_orders_endpoint(api, symbol, ok) ==
    PassThrough(api, "fetch_open_orders",
                [symbol |-> symbol, params |-> [kind |-> "PERPETUAL"]], ok)

\* api.cancel_order(id=request.order_id, params={"time_to_live_ms": "1000"})
CancelByOrderId(api, request) ==
    Call(api, "cancel_order",
         [id |-> request.order_id,
          params |-> [client_order_id |-> None, time_to_live_ms |-> "1000"]])

\* api.cancel_order(id=None, params={"client_order_id": ..., "time_to_live_ms": "1000"})
CancelByClientOrderId(api, request) ==
    Call(api, "cancel_order",
         [id |-> None,
          params |-> [client_order_id |-> request.client_order_id,
                      time_to_live_ms |-> "1000"]])

\* the cancel call and the return after it, or the except block when it raises
CancelDispatch(call, ok) ==
    IF ok
    THEN Outcome(<<call>>, Response(200, "", [kind |-> "cancel", status |-> "success"]),
                 NoLog)
    ELSE ExceptException(<<call>>, ExchangeException, NoLog)

\* raise HTTPException(400, "Must provide order_id or client_order_id"), caught by
\* the handler's own except block
CancelRejected ==
    ExceptException(<< >>, HTTPException(400, "Must provide order_id or client_order_id"),
                    NoLog)

\* cancel_order_endpoint with its two branches tested in the other order
cancel_order_endpoint_ClientIdFirst(api, request, ok) ==
    IF TruthyNum(request.client_order_id)
    THEN CancelDispatch(CancelByClientOrderId(api, request), ok)
    ELSE IF TruthyStr(request.order_id)
         THEN CancelDispatch(CancelByOrderId(api, request), ok)
         ELSE CancelRejected

\* DELETE /orders
cancel_order_endpoint(api, request, ok) ==
    IF TruthyStr(request.order_id)
    THEN CancelDispatch(CancelByOrderId(api, request), ok)
    ELSE IF TruthyNum(request.client_order_id)
         THEN CancelDispatch(CancelByClientOrderId(api, request), ok)
         ELSE CancelRejected

\* DELETE /orders/all
cancel_all_orders_endpoint(api, ok) ==
    PassThrough(api, "cancel_all_orders", [none |-> 0], ok)

\* dict.get(key): None when the key is absent
DictGet(d, k) == IF k \in DOMAIN d THEN Some(d[k]) ELSE None

\* GET /risk/derisk-ratio.  present: the keys the exchange's summary carries
get_derisk_ratio(api, present, ok) ==
    LET call == Call(api, "get_account_summary", [type |-> "sub-account"])
        acc_summary == [k \in present |-> "value"]
    IN  IF ok
        THEN Outcome(<<call>>,
                     Response(200, "",
                              [kind |-> "risk",
                               maintenance_margin |-> DictGet(acc_summary, "maintenance_margin"),
                               derisk_margin |-> DictGet(acc_summary, "derisk_margin"),
                               derisk_ratio |->
                                   DictGet(acc_summary, "derisk_to_maintenance_margin_ratio")]),
                     NoLog)
        ELSE ExceptException(<<call>>, ExchangeException, NoLog)

\* POST /risk/derisk-ratio
set_derisk_ratio(api, ratio, ok) ==
    LET call == Call(api, "set_derisk_mm_ratio", [ratio |-> ratio])
    IN  IF ok
        THEN Outcome(<<call>>,
                     Response(200, "", [kind |-> "ratio", status |-> "success",
                                        new_ratio |-> ratio]),
                     NoLog)
        ELSE ExceptException(<<call>>, ExchangeException, NoLog)

\* GET /exchange/info
get_exchange_description(api, ok) ==
    IF ok
    THEN Outcome(<<Call(api, "describe", [none |-> 0])>>,
                 Response(200, "", [kind |-> "exchange", method |-> "describe"]), NoLog)
    ELSE ExceptException(<<Call(api, "describe", [none |-> 0])>>, ExchangeException,
                         [level |-> "error", msg |-> "Failed to fetch description",
                          client_order_id |-> None])

\* GET /history/orders: the symbol parameter is accepted and not forwarded
get_order_history(api, symbol, limit, ok) ==
    PassThrough(api, "fetch_order_history",
                [params |-> [kind |-> "PERPETUAL", limit |-> limit]], ok)

\* GET /history/trades
get_my_trades(api, symbol, limit, ok) ==
    PassThrough(api, "fetch_my_trades", [symbol |-> symbol, limit |-> limit], ok)

\* milliseconds to nanoseconds
MsToNs == 1000000

\* since = int(start_time * 1_000_000) if start_time else None
FundingSince(start_time) ==
    IF TruthyNum(start_time) THEN Some(start_time[1] * MsToNs) ELSE None

\* GET /history/funding
get_funding_history(api, symbol, limit, start_time, ok) ==
    PassThrough(api, "fetch_funding_rate_history",
                [symbol |-> symbol, since |-> FundingSince(start_time), limit |-> limit], ok)

\* GET /history/account
get_account_history(api, limit, ok) ==
    PassThrough(api, "fetch_account_history", [params |-> [limit |-> limit]], ok)

(* ------------------------ one action per route ------------------------- *)

route_health_check ==
    Handled([ep |-> "health_check"], health_check)

route_get_markets ==
    \E ok \in BOOLEAN :
        Handled([ep |-> "get_markets"],
                Depends(get_read_api, get_markets(get_read_api.api, ok)))

route_get_ticker ==
    \E symbol \in Symbols, ok \in BOOLEAN :
        Handled([ep |-> "get_ticker", symbol |-> symbol],
                Depends(get_read_api, get_ticker(get_read_api.api, symbol, ok)))

route_get_order_book ==
    \E symbol \in Symbols, limit \in Limits, ok \in BOOLEAN :
        Handled([ep |-> "get_order_book", symbol |-> symbol, limit |-> limit],
                Depends(get_read_api, get_order_book(get_read_api.api, symbol, limit, ok)))

route_get_balance ==
    \E ok \in BOOLEAN :
        Handled([ep |-> "get_balance"],
                Depends(get_read_api, get_balance(get_read_api.api, ok)))

route_get_account_summary ==
    \E type \in AccountTypes, ok \in BOOLEAN :
        Handled([ep |-> "get_account_summary", type |-> type],
                Depends(get_read_api, get_account_summary(get_read_api.api, type, ok)))

route_get_positions ==
    \E symbols \in {None, Some({}), Some({"ETH_USDT_Perp"})}, ok \in BOOLEAN :
        Handled([ep |-> "get_positions", symbols |-> symbols],
                Depends(get_read_api, get_positions(get_read_api.api, symbols, ok)))

route_create_order ==
    \E order \in OrderRequest, client_order_id \in ClientOrderIds, ok \in BOOLEAN :
        Handled([ep |-> "create_order", order |-> order],
                Depends(get_read_api,
                        create_order(get_read_api.api, order, client_order_id, ok)))

route_get_open_orders_endpoint ==
    \E symbol \in Symbols, ok \in BOOLEAN :
        Handled([ep |-> "get_open_orders_endpoint", symbol |-> symbol],
                Depends(get_read_api,
                        get_open_orders_endpoint(get_read_api.api, symbol, ok)))

route_cancel_order_endpoint ==
    \E request \in CancelOrderRequest, ok \in BOOLEAN :
        Handled([ep |-> "cancel_order_endpoint", request |-> request],
                Depends(get_read_api,
                        cancel_order_endpoint(get_read_api.api, request, ok)))

route_cancel_all_orders_endpoint ==
    \E ok \in BOOLEAN :
        Handled([ep |-> "cancel_all_orders_endpoint"],
                Depends(get_read_api, cancel_all_orders_endpoint(get_read_api.api, ok)))

route_get_derisk_ratio ==
    \E present \in SUBSET RiskKeys, ok \in BOOLEAN :
        Handled([ep |-> "get_derisk_ratio"],
                Depends(get_read_api, get_derisk_ratio(get_read_api.api, present, ok)))

route_set_derisk_ratio ==
    \E ratio \in Ratios, ok \in BOOLEAN :
        Handled([ep |-> "set_derisk_ratio", ratio |-> ratio],
                Depends(get_read_api, set_derisk_ratio(get_read_api.api, ratio, ok)))

route_get_exchange_description ==
    \E ok \in BOOLEAN :
        Handled([ep |-> "get_exchange_description"],
                Depends(get_read_api, get_exchange_description(get_read_api.api, ok)))

route_get_order_history ==
    \E symbol \in {None} \cup {Some(s) : s \in Symbols}, limit \in Limits, ok \in BOOLEAN :
        Handled([ep |-> "get_order_history", symbol |-> symbol, limit |-> limit],
                Depends(get_trade_api,
                        get_order_history(get_trade_api.api, symbol, limit, ok)))

route_get_my_trades ==
    \E symbol \in Symbols, limit \in Limits, ok \in BOOLEAN :
        Handled([ep |-> "get_my_trades", symbol |-> symbol, limit |-> limit],
                Depends(get_trade_api, get_my_trades(get_trade_api.api, symbol, limit, ok)))

route_get_funding_history ==
    \E symbol \in Symbols, limit \in Limits, start_time \in StartTimes, ok \in BOOLEAN :
        Handled([ep |-> "get_funding_history", symbol |-> symbol, limit |-> limit,
                 start_time |-> start_time],
                Depends(get_trade_api,
                        get_funding_history(get_trade_api.api, symbol, limit, start_time, ok)))

route_get_account_history ==
    \E limit \in Limits, ok \in BOOLEAN :
        Handled([ep |-> "get_account_history", limit |-> limit],
                Depends(get_trade_api, get_account_history(get_trade_api.api, limit, ok)))

Next ==
    \/ lifespan_startup
    \/ lifespan_shutdown
    \/ route_health_check
    \/ route_get_markets
    \/ route_get_ticker
    \/ route_get_order_book
    \/ route_get_balance
    \/ route_get_account_summary
    \/ route_get_positions
    \/ route_create_order
    \/ route_get_open_orders_endpoint
    \/ route_cancel_order_endpoint
    \/ route_cancel_all_orders_endpoint
    \/ route_get_derisk_ratio
    \/ route_set_derisk_ratio
    \/ route_get_exchange_description
    \/ route_get_order_history
    \/ route_get_my_trades
    \/ route_get_funding_history
    \/ route_get_account_history

Spec == Init /\ [][Next]_vars

(* ------------------------------ properties ----------------------------- *)

\* the routes that place or cancel orders, and the read-only queries
TradingEndpoints == {"create_order", "cancel_order_endpoint", "cancel_all_orders_endpoint"}
ReadOnlyEndpoints == {"get_markets", "get_ticker", "get_order_book", "get_balance",
                      "get_positions", "get_account_summary", "get_derisk_ratio",
                      "get_order_history", "get_my_trades", "get_funding_history",
                      "get_account_history"}

\* the dependency of the last request resolved a session, so the route body ran
BodyRan == req.ep \notin {"none", "health_check"} /\ resp.status # 503

\* the last request is a limit order without a price
LimitWithoutPrice ==
    /\ req.ep = "create_order"
    /\ req.order.order_type = "limit"
    /\ req.order.price = None

\* the last request is a cancellation that names no identifier
CancelWithoutId ==
    /\ req.ep = "cancel_order_endpoint"
    /\ req.request.order_id = None
    /\ req.request.client_order_id = None

\* C1: every exchange call of a trading route (submit, cancel one, cancel all) is
\* issued on the trade-scoped session, never on the read-scoped one.
C1_TradingOnTradeSession ==
    req.ep \in TradingEndpoints =>
        \A i \in 1..Len(calls) : calls[i].session = TradeSession

\* C2: every exchange call of a read-only query (market data, account, risk summary
\* and the four history pass-throughs) is issued on the read-scoped session.
C2_ReadOnReadSession ==
    req.ep \in ReadOnlyEndpoints =>
        \A i \in 1..Len(calls) : calls[i].session = ReadSession

\* C3: a limit order without a price, and a cancellation naming neither identifier,
\* end in a failure response and dispatch zero exchange calls.
C3_InvalidNeverDispatched ==
    (LimitWithoutPrice \/ CancelWithoutId) =>
        /\ resp.status >= 400
        /\ Len(calls) = 0

\* C3 witness: the body of create_order ran on a limit order without a price and
\* raised its validation failure.
C3_Witness ==
    /\ LimitWithoutPrice
    /\ BodyRan
    /\ resp.detail = "400: Limit order requires price"
    /\ calls = << >>

\* C4: a limit order without a price, a cancellation with no identifier, and a
\* request that finds its session not initialized each end in a 4xx response.
C4_ValidationAndUnavailableAre4xx ==
    (LimitWithoutPrice \/ CancelWithoutId
        \/ (req.ep \notin {"none", "health_check"} /\ Len(calls) = 0 /\ ~BodyRan)) =>
        resp.status \in 400..499

\* C5: a submission that reached the exchange carries the generated client order
\* id in its parameters and the caller receives that same id, whether the
\* exchange call returned or raised.
C5_ClientOrderIdKnownToCaller ==
    (req.ep = "create_order" /\ Len(calls) = 1) =>
        /\ calls[1].args.params.client_order_id \in ClientOrderIds
        /\ resp.body.kind = "order"
        /\ resp.body.client_order_id = Some(calls[1].args.params.client_order_id)

\* C6: a cancellation naming only a client order id (any value from 0 up)
\* dispatches exactly one cancel call carrying that id as a parameter and does
\* not fail validation.
C6_CancelByClientOrderId ==
    (/\ req.ep = "cancel_order_endpoint"
     /\ BodyRan
     /\ req.request.order_id = None
     /\ req.request.client_order_id # None) =>
        /\ Len(calls) = 1
        /\ calls[1].method = "cancel_order"
        /\ calls[1].args.params.client_order_id = req.request.client_order_id
        /\ resp.detail # "400: Must provide order_id or client_order_id"

\* the last request is a cancellation whose single call selects the order by the
\* request's exchange order id
CancelledByOrderId ==
    /\ Len(calls) = 1
    /\ calls[1].method = "cancel_order"
    /\ calls[1].args.id = req.request.order_id
    /\ calls[1].args.params.client_order_id = None

\* C7 as stated: a cancellation with both an order id and a client order id
\* present dispatches exactly one cancel call whose id is the order id.
C7_BothPresentUsesOrderId ==
    (/\ req.ep = "cancel_order_endpoint"
     /\ BodyRan
     /\ req.request.order_id # None
     /\ req.request.client_order_id # None) =>
        CancelledByOrderId

\* C7 amended: a cancellation with a non-empty order id and a client order id
\* present dispatches exactly one cancel call whose id is the order id, and the
\* client order id is not passed.
C7_NonEmptyOrderIdTakesPrecedence ==
    (/\ req.ep = "cancel_order_endpoint"
     /\ BodyRan
     /\ req.request.order_id # None
     /\ req.request.order_id[1] # ""
     /\ req.request.client_order_id # None) =>
        CancelledByOrderId

\* C7 witness: both identifiers given, the client order id a usable one, and the
\* call went out by order id.
C7_Witness ==
    /\ req.ep = "cancel_order_endpoint"
    /\ BodyRan
    /\ req.request.order_id = Some("0x01")
    /\ req.request.client_order_id = Some(1)
    /\ CancelledByOrderId

\* C8: while initialization has not succeeded, every endpoint but the health
\* check answers 503 and dispatches no exchange call.
C8_UnavailableBeforeInit ==
    (phase \in {"created", "failed"} /\ req.ep \notin {"none", "health_check"}) =>
        /\ resp.status = 503
        /\ Len(calls) = 0

\* C9: the funding-history call receives since = start_time * 1,000,000 for every
\* supplied start_time, 0 included, and no since when start_time is omitted.
C9_FundingSinceInNanoseconds ==
    (req.ep = "get_funding_history" /\ Len(calls) = 1) =>
        calls[1].args.since =
            IF req.start_time = None THEN None ELSE Some(req.start_time[1] * 1000000)

\* C10: after a failed initialization neither accessor yields a session.
C10_NoSessionAfterFailedInit ==
    phase = "failed" => (get_read_api.raised /\ get_trade_api.raised)

====
